---- MODULE Spec2Model ----
(***************************************************************************)
(* Model of the CSV diff engine of csv_diff/core.py: compare_csv_files and *)
(* its three matching modes (_compare_ordered, _compare_unordered and the  *)
(* Counter based multiset comparison).  The loader (_read_csv) is outside  *)
(* the engine: a source is the (headers, rows) pair it returns, every row  *)
(* being a mapping whose domain is exactly the set of that source's        *)
(* headers (core.py line 66).                                              *)
(***************************************************************************)
EXTENDS Integers, Sequences, FiniteSets, TLC

VARIABLES headers1, rows1, headers2, rows2, keys, ordered, pc, branch, added, removed, modified

\* The state of change_tracker.py: the two CSV files as pandas reads them, the
\* ChangeTracker object, and the arguments and result of one call of
\* detect_field_change.
VARIABLES old_csv, new_csv, tracker, old_value, new_value, field_change

\* The argument and the result of one call of normalize_name; the result of the
\* re-check of comprehensive_check.py on old_value and new_value; the JSON
\* report file and the outcome of comprehensive_verification; the command line
\* and the outcome of one run of csv_diff's main.
VARIABLES raw_name, normalized_name, recheck, report, verifier, cli

\* The arguments and the result of one call of similarity_score.
VARIABLES text1, text2, score

diffVars == <<headers1, rows1, headers2, rows2, keys, ordered, branch, added, removed, modified>>

trackerVars == <<old_csv, new_csv, tracker, report, verifier>>

classifierVars == <<old_value, new_value, field_change, recheck>>

normalizerVars == <<raw_name, normalized_name>>

similarityVars == <<text1, text2, score>>

vars == <<diffVars, pc, trackerVars, classifierVars, normalizerVars, similarityVars, cli>>

\* The parts of the state a program other than the running one never touches.
DiffUnused ==
  /\ headers1 = <<>> /\ rows1 = <<>> /\ headers2 = <<>> /\ rows2 = <<>>
  /\ keys = <<>> /\ ordered = FALSE /\ branch = "none"
  /\ added = <<>> /\ removed = <<>> /\ modified = <<>>

TrackerUnused ==
  old_csv = <<>> /\ new_csv = <<>> /\ tracker = <<>> /\ report = <<>> /\ verifier = <<>>

ClassifierUnused ==
  old_value = <<>> /\ new_value = <<>> /\ field_change = <<>> /\ recheck = <<>>

NormalizerUnused == raw_name = <<>> /\ normalized_name = <<>>

SimilarityUnused == text1 = <<>> /\ text2 = <<>> /\ score = <<>>

CliUnused == cli = <<>>

(***************************************************************************)
(* Bounds of the model and the input alphabets.                            *)
(***************************************************************************)
MaxRows == 2

Val == {"", "1"}

Range(s) == {s[i] : i \in DOMAIN s}

\* Header lists of the sources of up to MaxRows rows: a file can have no column
\* at all, and it can repeat a column name.
HeaderLists == {<<>>, <<"id">>, <<"name">>, <<"id", "id">>, <<"id", "name">>}

\* Key lists a caller can pass; <<>> stands for both None and an empty list.
KeyLists == {<<>>, <<"id">>, <<"id", "name">>}

RowLists(headers) == UNION {[1..n -> [Range(headers) -> Val]] : n \in 0..MaxRows}

\* What _read_csv returns for one file.
Source(headers, rows) == [headers |-> headers, rows |-> rows]

Sources == UNION {{Source(h, r) : r \in RowLists(h)} : h \in HeaderLists}

\* Sources of one row whose columns come in the opposite order.
ReorderedSources == {Source(<<"name", "id">>, <<r>>) : r \in [{"name", "id"} -> Val]}

\* The sources of the worked scenarios: a roster of one row in four versions,
\* alone or followed by a second row, and a two column row in two versions.
RosterHeaders == <<"id", "name", "phone">>

Roster(id, name, phone) == [id |-> id, name |-> name, phone |-> phone]

RosterRows ==
  {Roster("1", "Alice", "123"), Roster("1", "Alice", "124"),
   Roster("1", "ALICE ", "123"), Roster("1", "Alicia", "124")}

ScenarioSources ==
  {Source(RosterHeaders, <<r>>) : r \in RosterRows}
    \cup {Source(RosterHeaders, <<r, Roster("2", "Bob", "555")>>) : r \in RosterRows}
    \cup {Source(<<"name", "id">>, <<[name |-> "A", id |-> v]>>) : v \in {"1", "2"}}

(***************************************************************************)
(* Python values.                                                          *)
(***************************************************************************)
\* Optional[Dict]: None is the empty tuple, a present row is a 1-tuple.
None == <<>>

Some(r) == <<r>>

\* dict.get(col, ""): an absent column reads as the empty string.
Get(row, col) == IF col \in DOMAIN row THEN row[col] ELSE ""

CellChange(column, old, new) == [column |-> column, old |-> old, new |-> new]

RowChange(kind, key, changes, row_old, row_new) ==
  [kind |-> kind, key |-> key, changes |-> changes, row_old |-> row_old, row_new |-> row_new]

\* list(dict.fromkeys(s)): s without repetitions, first occurrences kept in order.
RECURSIVE DictFromKeys(_)
DictFromKeys(s) ==
  IF s = <<>> THEN <<>>
  ELSE LET init == DictFromKeys(SubSeq(s, 1, Len(s) - 1))
           x == s[Len(s)]
       IN IF x \in Range(init) THEN init ELSE Append(init, x)

\* A variant of AllColumns that lists the new source's columns first.
AllColumnsNewFirst(h1, h2) == DictFromKeys(h2 \o h1)

AllColumns(h1, h2) == DictFromKeys(h1 \o h2)

\* A variant of CellChanges that stops at the first differing column.
RECURSIVE CellChangesFirstOnly(_, _, _)
CellChangesFirstOnly(r1, r2, cols) ==
  IF cols = <<>> THEN <<>>
  ELSE LET init == CellChangesFirstOnly(r1, r2, SubSeq(cols, 1, Len(cols) - 1))
           col == cols[Len(cols)]
       IN IF init = <<>> /\ Get(r1, col) # Get(r2, col)
          THEN <<CellChange(col, Get(r1, col), Get(r2, col))>>
          ELSE init

\* A variant of CellChanges that skips the columns one of the two rows lacks.
RECURSIVE CellChangesCommonOnly(_, _, _)
CellChangesCommonOnly(r1, r2, cols) ==
  IF cols = <<>> THEN <<>>
  ELSE LET init == CellChangesCommonOnly(r1, r2, SubSeq(cols, 1, Len(cols) - 1))
           col == cols[Len(cols)]
       IN IF col \in DOMAIN r1 /\ col \in DOMAIN r2 /\ r1[col] # r2[col]
          THEN Append(init, CellChange(col, r1[col], r2[col]))
          ELSE init

\* The inner loop "for col in all_columns": the CellChanges of one matched pair.
RECURSIVE CellChanges(_, _, _)
CellChanges(r1, r2, cols) ==
  IF cols = <<>> THEN <<>>
  ELSE LET init == CellChanges(r1, r2, SubSeq(cols, 1, Len(cols) - 1))
           col == cols[Len(cols)]
           v1 == Get(r1, col)
           v2 == Get(r2, col)
       IN IF v1 # v2 THEN Append(init, CellChange(col, v1, v2)) ELSE init

Result(a, r, m) == [added |-> a, removed |-> r, modified |-> m]

\* A variant of OrderedLoop without the test "if changes".
RECURSIVE OrderedLoopNoGuard(_, _, _, _, _)
OrderedLoopNoGuard(h1, r1, h2, r2, n) ==
  IF n = 0 THEN Result(<<>>, <<>>, <<>>)
  ELSE LET acc == OrderedLoopNoGuard(h1, r1, h2, r2, n - 1)
           idx == n - 1
       IN IF idx >= Len(r1)
          THEN [acc EXCEPT !.added =
                  Append(@, RowChange("added", <<idx>>, <<>>, None, Some(r2[idx + 1])))]
          ELSE IF idx >= Len(r2)
          THEN [acc EXCEPT !.removed =
                  Append(@, RowChange("removed", <<idx>>, <<>>, Some(r1[idx + 1]), None))]
          ELSE [acc EXCEPT !.modified =
                  Append(@, RowChange("modified", <<idx>>,
                                      CellChanges(r1[idx + 1], r2[idx + 1], AllColumns(h1, h2)),
                                      Some(r1[idx + 1]), Some(r2[idx + 1])))]

(***************************************************************************)
(* _compare_ordered: the state of the loop after n iterations.             *)
(***************************************************************************)
RECURSIVE OrderedLoop(_, _, _, _, _)
OrderedLoop(h1, r1, h2, r2, n) ==
  IF n = 0 THEN Result(<<>>, <<>>, <<>>)
  ELSE LET acc == OrderedLoop(h1, r1, h2, r2, n - 1)
           idx == n - 1
       IN IF idx >= Len(r1)
          THEN [acc EXCEPT !.added =
                  Append(@, RowChange("added", <<idx>>, <<>>, None, Some(r2[idx + 1])))]
          ELSE IF idx >= Len(r2)
          THEN [acc EXCEPT !.removed =
                  Append(@, RowChange("removed", <<idx>>, <<>>, Some(r1[idx + 1]), None))]
          ELSE LET changes == CellChanges(r1[idx + 1], r2[idx + 1], AllColumns(h1, h2))
               IN IF changes # <<>>
                  THEN [acc EXCEPT !.modified =
                          Append(@, RowChange("modified", <<idx>>, changes,
                                              Some(r1[idx + 1]), Some(r2[idx + 1])))]
                  ELSE acc

Max(a, b) == IF a >= b THEN a ELSE b

\* A variant of CompareOrdered that stops at the end of the shorter side.
CompareOrderedZip(h1, r1, h2, r2) ==
  OrderedLoop(h1, r1, h2, r2, IF Len(r1) <= Len(r2) THEN Len(r1) ELSE Len(r2))

CompareOrdered(h1, r1, h2, r2) == OrderedLoop(h1, r1, h2, r2, Max(Len(r1), Len(r2)))

(***************************************************************************)
(* _compare_unordered.  A dict comprehension keeps, for a repeated key,    *)
(* the row inserted last.  The three loops iterate over Python sets of     *)
(* string tuples, whose iteration order depends on the per-process string  *)
(* hash seed: hashOrder is any enumeration of the keys of both maps.       *)
(***************************************************************************)
MakeKey(row, ks) == [i \in 1..Len(ks) |-> Get(row, ks[i])]

KeySet(rows, ks) == {MakeKey(rows[i], ks) : i \in DOMAIN rows}

\* A variant of LastIndex that keeps the first row of a repeated key.
FirstIndex(rows, ks, k) ==
  CHOOSE i \in DOMAIN rows :
    /\ MakeKey(rows[i], ks) = k
    /\ \A j \in DOMAIN rows : j < i => MakeKey(rows[j], ks) # k

LastIndex(rows, ks, k) ==
  CHOOSE i \in DOMAIN rows :
    /\ MakeKey(rows[i], ks) = k
    /\ \A j \in DOMAIN rows : j > i => MakeKey(rows[j], ks) # k

KeyMap(rows, ks) == [k \in KeySet(rows, ks) |-> rows[LastIndex(rows, ks, k)]]

\* The enumerations of a finite set, as sequences without repetition.
Orders(S) == {o \in [1..Cardinality(S) -> S] : Range(o) = S}

\* The elements of the enumeration o that belong to S, in the order of o.
RECURSIVE Filter(_, _)
Filter(o, S) ==
  IF o = <<>> THEN <<>>
  ELSE LET init == Filter(SubSeq(o, 1, Len(o) - 1), S)
           x == o[Len(o)]
       IN IF x \in S THEN Append(init, x) ELSE init

\* A variant of ModifiedLoop without the test "if changes".
RECURSIVE ModifiedLoopNoGuard(_, _, _, _)
ModifiedLoopNoGuard(map1, map2, cols, ks) ==
  IF ks = <<>> THEN <<>>
  ELSE LET init == ModifiedLoopNoGuard(map1, map2, cols, SubSeq(ks, 1, Len(ks) - 1))
           k == ks[Len(ks)]
       IN Append(init, RowChange("modified", k, CellChanges(map1[k], map2[k], cols),
                                 Some(map1[k]), Some(map2[k])))

\* The third loop of _compare_unordered, over the keys ks of both maps.
RECURSIVE ModifiedLoop(_, _, _, _)
ModifiedLoop(map1, map2, cols, ks) ==
  IF ks = <<>> THEN <<>>
  ELSE LET init == ModifiedLoop(map1, map2, cols, SubSeq(ks, 1, Len(ks) - 1))
           k == ks[Len(ks)]
           changes == CellChanges(map1[k], map2[k], cols)
       IN IF changes # <<>>
          THEN Append(init, RowChange("modified", k, changes, Some(map1[k]), Some(map2[k])))
          ELSE init

\* A variant of CompareUnordered whose first two loops run over the rows, not the maps.
CompareUnorderedPerRow(h1, r1, h2, r2, ks, hashOrder) ==
  LET map1 == KeyMap(r1, ks)
      map2 == KeyMap(r2, ks)
      IsOnlyOld(r) == MakeKey(r, ks) \notin DOMAIN map2
      IsOnlyNew(r) == MakeKey(r, ks) \notin DOMAIN map1
      onlyOld == SelectSeq(r1, IsOnlyOld)
      onlyNew == SelectSeq(r2, IsOnlyNew)
      both == Filter(hashOrder, DOMAIN map1 \cap DOMAIN map2)
  IN Result([i \in DOMAIN onlyNew |->
               RowChange("added", MakeKey(onlyNew[i], ks), <<>>, None, Some(onlyNew[i]))],
            [i \in DOMAIN onlyOld |->
               RowChange("removed", MakeKey(onlyOld[i], ks), <<>>, Some(onlyOld[i]), None)],
            ModifiedLoop(map1, map2, AllColumns(h1, h2), both))

\* A variant of CompareUnordered that compares the columns of the old source only.
CompareUnorderedOldColumns(h1, r1, h2, r2, ks, hashOrder) ==
  LET map1 == KeyMap(r1, ks)
      map2 == KeyMap(r2, ks)
      onlyOld == Filter(hashOrder, DOMAIN map1 \ DOMAIN map2)
      onlyNew == Filter(hashOrder, DOMAIN map2 \ DOMAIN map1)
      both == Filter(hashOrder, DOMAIN map1 \cap DOMAIN map2)
  IN Result([i \in DOMAIN onlyNew |->
               RowChange("added", onlyNew[i], <<>>, None, Some(map2[onlyNew[i]]))],
            [i \in DOMAIN onlyOld |->
               RowChange("removed", onlyOld[i], <<>>, Some(map1[onlyOld[i]]), None)],
            ModifiedLoop(map1, map2, DictFromKeys(h1), both))

CompareUnordered(h1, r1, h2, r2, ks, hashOrder) ==
  LET map1 == KeyMap(r1, ks)
      map2 == KeyMap(r2, ks)
      all_columns == AllColumns(h1, h2)
      onlyOld == Filter(hashOrder, DOMAIN map1 \ DOMAIN map2)
      onlyNew == Filter(hashOrder, DOMAIN map2 \ DOMAIN map1)
      both == Filter(hashOrder, DOMAIN map1 \cap DOMAIN map2)
  IN Result([i \in DOMAIN onlyNew |->
               RowChange("added", onlyNew[i], <<>>, None, Some(map2[onlyNew[i]]))],
            [i \in DOMAIN onlyOld |->
               RowChange("removed", onlyOld[i], <<>>, Some(map1[onlyOld[i]]), None)],
            ModifiedLoop(map1, map2, all_columns, both))

(***************************************************************************)
(* The multiset branch of compare_csv_files.  A Counter is a dict: its     *)
(* items come in insertion order, which is the order of first occurrence.  *)
(***************************************************************************)
ToTuple(row, tuple_headers) == [i \in 1..Len(tuple_headers) |-> Get(row, tuple_headers[i])]

\* {h: v for h, v in zip(tuple_headers, t)}
ZipDict(tuple_headers, t) ==
  [h \in Range(tuple_headers) |-> t[CHOOSE i \in DOMAIN tuple_headers : tuple_headers[i] = h]]

Count(ts, t) == Cardinality({i \in DOMAIN ts : ts[i] = t})

\* Counter(ts): the distinct items in order of first occurrence, with their counts.
Counter(ts) == [elems |-> DictFromKeys(ts), count |-> [t \in Range(ts) |-> Count(ts, t)]]

CountOf(c, t) == IF t \in DOMAIN c.count THEN c.count[t] ELSE 0

\* A variant of CounterSub that drops every item the other counter holds at all.
CounterSubSet(a, b) ==
  LET keep == {t \in Range(a.elems) : CountOf(b, t) = 0}
  IN [elems |-> Filter(a.elems, keep), count |-> [t \in keep |-> CountOf(a, t)]]

\* Counter.__sub__: only the items of a with a positive difference are kept.
CounterSub(a, b) ==
  LET keep == {t \in Range(a.elems) : CountOf(a, t) - CountOf(b, t) > 0}
  IN [elems |-> Filter(a.elems, keep),
      count |-> [t \in keep |-> CountOf(a, t) - CountOf(b, t)]]

Repeat(x, n) == [i \in 1..n |-> x]

\* A variant of Expand that gives every item once, whatever its count.
RECURSIVE ExpandOnce(_, _)
ExpandOnce(c, n) ==
  IF n = 0 THEN <<>>
  ELSE Append(ExpandOnce(c, n - 1), c.elems[n])

\* "for t, count in c.items(): for _ in range(count)": its items, each count times.
RECURSIVE Expand(_, _)
Expand(c, n) ==
  IF n = 0 THEN <<>>
  ELSE Expand(c, n - 1) \o Repeat(c.elems[n], c.count[c.elems[n]])

CompareMultiset(h1, r1, h2, r2) ==
  LET tuple_headers == AllColumns(h1, h2)
      c1 == Counter([i \in DOMAIN r1 |-> ToTuple(r1[i], tuple_headers)])
      c2 == Counter([i \in DOMAIN r2 |-> ToTuple(r2[i], tuple_headers)])
      plus == CounterSub(c2, c1)
      minus == CounterSub(c1, c2)
      ts2 == Expand(plus, Len(plus.elems))
      ts1 == Expand(minus, Len(minus.elems))
  IN Result([i \in DOMAIN ts2 |->
               RowChange("added", ts2[i], <<>>, None, Some(ZipDict(tuple_headers, ts2[i])))],
            [i \in DOMAIN ts1 |->
               RowChange("removed", ts1[i], <<>>, Some(ZipDict(tuple_headers, ts1[i])), None)],
            <<>>)

(***************************************************************************)
(* compare_csv_files: the branch taken for the arguments (ordered, keys).  *)
(***************************************************************************)
\* A variant of Mode that tests the key list before the ordered flag.
ModeKeyFirst(ord, ks) ==
  IF ks # <<>> /\ Len(ks) > 0 THEN "keyed"
  ELSE IF ord THEN "ordered"
  ELSE "multiset"

Mode(ord, ks) ==
  IF ord THEN "ordered"
  ELSE IF ks # <<>> /\ Len(ks) > 0 THEN "keyed"
  ELSE "multiset"

AllSources == Sources \cup ReorderedSources \cup ScenarioSources

Init ==
  /\ \E s1 \in AllSources, s2 \in AllSources :
       /\ headers1 = s1.headers
       /\ rows1 = s1.rows
       /\ headers2 = s2.headers
       /\ rows2 = s2.rows
  /\ keys \in KeyLists
  /\ ordered \in BOOLEAN
  /\ pc = "start"
  /\ branch = "none"
  /\ added = <<>>
  /\ removed = <<>>
  /\ modified = <<>>
  /\ TrackerUnused
  /\ ClassifierUnused
  /\ NormalizerUnused
  /\ SimilarityUnused
  /\ CliUnused

\* "return DiffResult(...)": the three sequences, fully computed, in one step.
Return(res) ==
  /\ added' = res.added
  /\ removed' = res.removed
  /\ modified' = res.modified
  /\ pc' = "done"
  /\ UNCHANGED <<headers1, rows1, headers2, rows2, keys, ordered,
                 trackerVars, classifierVars, normalizerVars, similarityVars, cli>>

Ordered ==
  /\ pc = "start"
  /\ Mode(ordered, keys) = "ordered"
  /\ branch' = "_compare_ordered"
  /\ Return(CompareOrdered(headers1, rows1, headers2, rows2))

Keyed ==
  /\ pc = "start"
  /\ Mode(ordered, keys) = "keyed"
  /\ branch' = "_compare_unordered"
  /\ \E hashOrder \in Orders(KeySet(rows1, keys) \cup KeySet(rows2, keys)) :
       Return(CompareUnordered(headers1, rows1, headers2, rows2, keys, hashOrder))

Multiset ==
  /\ pc = "start"
  /\ Mode(ordered, keys) = "multiset"
  /\ branch' = "multiset"
  /\ Return(CompareMultiset(headers1, rows1, headers2, rows2))

Next == Ordered \/ Keyed \/ Multiset

Spec == Init /\ [][Next]_vars

(***************************************************************************)
(* Vocabulary of the properties, stated on the call's arguments and on the *)
(* returned DiffResult only.                                               *)
(***************************************************************************)
Done == pc = "done"

OrderedCall == ordered

KeyedCall == ~ordered /\ keys # <<>>

MultisetCall == ~ordered /\ keys = <<>>

\* A requested key column is no header of one of the two sources.
MissingKeyColumn ==
  \E i \in DOMAIN keys : keys[i] \notin Range(headers1) \/ keys[i] \notin Range(headers2)

Kold == {MakeKey(rows1[i], keys) : i \in DOMAIN rows1}

Knew == {MakeKey(rows2[i], keys) : i \in DOMAIN rows2}

\* The entries of a result sequence that carry the key k.
At(changes, k) == {i \in DOMAIN changes : changes[i].key = k}

Occ(changes, k) == Cardinality(At(changes, k))

\* The last record of rows, in source order, whose key is k.
LastRow(rows, k) ==
  LET I == {i \in DOMAIN rows : MakeKey(rows[i], keys) = k}
  IN rows[CHOOSE i \in I : \A j \in I : j <= i]

UnionColumns == Range(headers1) \cup Range(headers2)

Differing(r1, r2) == {c \in UnionColumns : Get(r1, c) # Get(r2, c)}

ChangedColumns(rc) == {rc.changes[i].column : i \in DOMAIN rc.changes}

Min(a, b) == IF a <= b THEN a ELSE b

\* C1: in keyed mode every key of the new side only gives exactly one added
\* entry, every key of the old side only exactly one removed entry, neither
\* gives a modified entry, and so |added| = |Knew - Kold|, |removed| = |Kold - Knew|.
C1_KeyedMembership ==
  (Done /\ KeyedCall) =>
    /\ \A k \in Knew \ Kold : Occ(added, k) = 1 /\ Occ(modified, k) = 0
    /\ \A k \in Kold \ Knew : Occ(removed, k) = 1 /\ Occ(modified, k) = 0
    /\ Len(added) = Cardinality(Knew \ Kold)
    /\ Len(removed) = Cardinality(Kold \ Knew)

\* A keyed comparison with a key on each side only, the new-only key repeated.
C1_Witness ==
  /\ Done /\ KeyedCall
  /\ ~MissingKeyColumn
  /\ Knew \ Kold # {} /\ Kold \ Knew # {}
  /\ Len(rows2) > Cardinality(Knew)
  /\ Len(added) = 1 /\ Len(removed) = 1

\* The entry a matched pair (r1, r2) with key k must give: none when no column
\* differs, else one modified entry whose CellChanges are the differing columns.
PairReported(k, r1, r2) ==
  IF Differing(r1, r2) = {}
  THEN Occ(added, k) = 0 /\ Occ(removed, k) = 0 /\ Occ(modified, k) = 0
  ELSE /\ Occ(modified, k) = 1
       /\ \A i \in At(modified, k) :
            /\ modified[i].kind = "modified"
            /\ ChangedColumns(modified[i]) = Differing(r1, r2)
            /\ Len(modified[i].changes) = Cardinality(Differing(r1, r2))

\* C2: in keyed and in ordered mode a matched pair with a differing column
\* gives exactly one modified entry holding one CellChange per differing column
\* and none for an equal column; a pair with no differing column gives no entry.
C2_MatchedPairs ==
  /\ (Done /\ KeyedCall) =>
       \A k \in Kold \cap Knew : PairReported(k, LastRow(rows1, k), LastRow(rows2, k))
  /\ (Done /\ OrderedCall) =>
       \A i \in 1..Min(Len(rows1), Len(rows2)) : PairReported(<<i - 1>>, rows1[i], rows2[i])

\* A keyed comparison with one matched key equal on all columns and another
\* matched key that differs in two columns at once.
C2_Witness ==
  /\ Done /\ KeyedCall
  /\ \E k \in Kold \cap Knew : Differing(LastRow(rows1, k), LastRow(rows2, k)) = {}
  /\ \E k \in Kold \cap Knew :
       /\ Cardinality(Differing(LastRow(rows1, k), LastRow(rows2, k))) = 2
       /\ Occ(modified, k) = 1

\* C3: comparing a source with an identical copy gives no added, no removed
\* and no modified entry, whatever the mode, duplicates included.
C3_Idempotence ==
  (Done /\ headers1 = headers2 /\ rows1 = rows2) =>
    added = <<>> /\ removed = <<>> /\ modified = <<>>

\* A keyed self-comparison of a source holding two different rows under one key.
C3_Witness ==
  /\ Done /\ KeyedCall
  /\ ~MissingKeyColumn
  /\ headers1 = headers2 /\ rows1 = rows2
  /\ Len(rows1) = 2 /\ rows1[1] # rows1[2]
  /\ Cardinality(Kold) = 1
  /\ added = <<>> /\ removed = <<>> /\ modified = <<>>

\* The union of both header lists as the specification words it: the columns
\* of the old source in their order, then the new-only columns in theirs.
Ascending(I) == [n \in 1..Cardinality(I) |-> CHOOSE i \in I : Cardinality({j \in I : j < i}) = n - 1]

Firsts(h, I) == LET idx == Ascending({i \in I : \A j \in 1..(i - 1) : h[j] # h[i]})
                IN [n \in DOMAIN idx |-> h[idx[n]]]

ExpectedColumns ==
  Firsts(headers1, DOMAIN headers1)
    \o Firsts(headers2, {i \in DOMAIN headers2 : headers2[i] \notin Range(headers1)})

\* The full-row tuple of a record over the unioned columns.
TupleOf(r) == [i \in DOMAIN ExpectedColumns |-> Get(r, ExpectedColumns[i])]

CountOld(t) == Cardinality({i \in DOMAIN rows1 : TupleOf(rows1[i]) = t})

CountNew(t) == Cardinality({i \in DOMAIN rows2 : TupleOf(rows2[i]) = t})

Tuples == {TupleOf(rows1[i]) : i \in DOMAIN rows1} \cup {TupleOf(rows2[i]) : i \in DOMAIN rows2}

KeysOf(changes) == {changes[i].key : i \in DOMAIN changes}

\* C4: in multiset mode the added entries with key t number
\* max(0, count_new(t) - count_old(t)), the removed ones
\* max(0, count_old(t) - count_new(t)), and modified is empty; so the edit of
\* one cell of ("A","1") to ("A","2") is one removal plus one addition.
C4_MultisetCounts ==
  (Done /\ MultisetCall) =>
    /\ modified = <<>>
    /\ \A t \in Tuples \cup KeysOf(added) \cup KeysOf(removed) :
         /\ Occ(added, t) = Max(0, CountNew(t) - CountOld(t))
         /\ Occ(removed, t) = Max(0, CountOld(t) - CountNew(t))
    /\ (/\ headers1 = <<"name", "id">> /\ headers2 = <<"name", "id">>
        /\ rows1 = <<[name |-> "A", id |-> "1"]>> /\ rows2 = <<[name |-> "A", id |-> "2"]>>)
         => /\ Len(removed) = 1 /\ removed[1].key = <<"A", "1">>
            /\ Len(added) = 1 /\ added[1].key = <<"A", "2">>

\* A row held twice by the old source and once by the new one, whose second
\* copy was edited in exactly one cell: one removal and one addition.
C4_Witness ==
  /\ Done /\ MultisetCall
  /\ headers1 = headers2
  /\ Len(rows1) = 2 /\ Len(rows2) = 2
  /\ rows1[1] = rows1[2] /\ rows2[1] = rows1[1]
  /\ Cardinality(Differing(rows1[2], rows2[2])) = 1
  /\ Len(added) = 1 /\ Len(removed) = 1 /\ modified = <<>>
  /\ added[1].key = TupleOf(rows2[2]) /\ removed[1].key = TupleOf(rows1[1])

\* C5: in ordered mode every index at or past the end of the old side gives
\* exactly one added entry with key (i,) carrying new[i], every index at or past
\* the end of the new side exactly one removed entry with key (i,) carrying
\* old[i], and nothing else is added or removed.
C5_OrderedTail ==
  (Done /\ OrderedCall) =>
    /\ \A i \in 0..(Max(Len(rows1), Len(rows2)) - 1) :
         /\ i >= Len(rows1) =>
              /\ Occ(added, <<i>>) = 1 /\ Occ(removed, <<i>>) = 0 /\ Occ(modified, <<i>>) = 0
              /\ \A n \in At(added, <<i>>) :
                   /\ added[n].kind = "added"
                   /\ added[n].row_new = Some(rows2[i + 1])
                   /\ added[n].row_old = None
         /\ i >= Len(rows2) =>
              /\ Occ(removed, <<i>>) = 1 /\ Occ(added, <<i>>) = 0 /\ Occ(modified, <<i>>) = 0
              /\ \A n \in At(removed, <<i>>) :
                   /\ removed[n].kind = "removed"
                   /\ removed[n].row_old = Some(rows1[i + 1])
                   /\ removed[n].row_new = None
    /\ Len(added) = Max(0, Len(rows2) - Len(rows1))
    /\ Len(removed) = Max(0, Len(rows1) - Len(rows2))
    /\ \A n \in DOMAIN modified :
         modified[n].key \in {<<i>> : i \in 0..(Min(Len(rows1), Len(rows2)) - 1)}

\* old = [r0, r1] against new = [r0]: one removed entry with key (1,), nothing else.
C5_Witness ==
  /\ Done /\ OrderedCall
  /\ Len(rows1) = 2 /\ Len(rows2) = 1
  /\ headers1 = headers2 /\ rows1[1] = rows2[1]
  /\ added = <<>> /\ modified = <<>>
  /\ removed = <<RowChange("removed", <<1>>, <<>>, Some(rows1[2]), None)>>

\* C6: one branch runs per call: the ordered one whenever ordered is set, key
\* list or not; the keyed one for ordered unset and a non-empty key list; the
\* multiset one otherwise; and the result returned is that branch's result.
C6_ModeSelection ==
  Done =>
    /\ OrderedCall =>
         /\ branch = "_compare_ordered"
         /\ Result(added, removed, modified) = CompareOrdered(headers1, rows1, headers2, rows2)
    /\ KeyedCall =>
         /\ branch = "_compare_unordered"
         /\ \E o \in Orders(Kold \cup Knew) :
              Result(added, removed, modified)
                = CompareUnordered(headers1, rows1, headers2, rows2, keys, o)
    /\ MultisetCall =>
         /\ branch = "multiset"
         /\ Result(added, removed, modified) = CompareMultiset(headers1, rows1, headers2, rows2)

\* An ordered call that also passes a key list, on rows the keyed branch
\* would report differently: the entries carry indices, not key values.
C6_Witness ==
  /\ Done /\ ordered /\ keys = <<"id">>
  /\ Len(rows1) = 2 /\ Len(rows2) = 1
  /\ Kold \cap Knew # {}
  /\ branch = "_compare_ordered"
  /\ Len(removed) = 1 /\ removed[1].key = <<1>>

AllEntries ==
  {added[i] : i \in DOMAIN added} \cup {removed[i] : i \in DOMAIN removed}
    \cup {modified[i] : i \in DOMAIN modified}

\* C7: in keyed mode a key gives at most one entry, and the rows an entry
\* refers to and the values of its CellChanges are those of the last record
\* with that key on each side.
C7_LastDuplicateWins ==
  (Done /\ KeyedCall) =>
    /\ \A k \in Kold \cup Knew : Occ(added, k) + Occ(removed, k) + Occ(modified, k) <= 1
    /\ \A rc \in AllEntries :
         /\ rc.row_old # None => rc.row_old = Some(LastRow(rows1, rc.key))
         /\ rc.row_new # None => rc.row_new = Some(LastRow(rows2, rc.key))
         /\ \A n \in DOMAIN rc.changes :
              /\ rc.changes[n].old = Get(LastRow(rows1, rc.key), rc.changes[n].column)
              /\ rc.changes[n].new = Get(LastRow(rows2, rc.key), rc.changes[n].column)

\* Two old records under one key, the first equal to the new record and the
\* last one not: the modified entry is the one of the last record.
C7_Witness ==
  /\ Done /\ KeyedCall
  /\ ~MissingKeyColumn
  /\ Len(rows1) = 2 /\ Len(rows2) = 1
  /\ Cardinality(Kold) = 1 /\ Kold = Knew
  /\ headers1 = headers2
  /\ rows1[1] = rows2[1] /\ rows1[2] # rows2[1]
  /\ Len(modified) = 1 /\ modified[1].row_old = Some(rows1[2])

\* C8: a keyed call naming a key column that one of the sources lacks fails
\* with a ConfigurationError and returns no DiffResult.
C8_MissingKeyColumnFails == (KeyedCall /\ MissingKeyColumn) => ~Done

\* The values a matched pair (r1, r2) with key k must report for each column.
PairCells(k, r1, r2) ==
  \A c \in UnionColumns :
    LET hits == {<<i, n>> \in (DOMAIN modified) \X (1..Cardinality(UnionColumns)) :
                   /\ modified[i].key = k
                   /\ n \in DOMAIN modified[i].changes
                   /\ modified[i].changes[n].column = c}
    IN IF Get(r1, c) # Get(r2, c)
       THEN /\ Cardinality(hits) = 1
            /\ \A h \in hits :
                 modified[h[1]].changes[h[2]] = CellChange(c, Get(r1, c), Get(r2, c))
       ELSE hits = {}

\* C9: a matched pair gives a CellChange for a column of the unioned columns
\* exactly when the raw old and new values differ, an absent column counting as
\* the empty string, and the CellChange carries the raw values; so the roster
\* row (1, Alice, 123) against (1, Alice, 124), keyed on id, is one modified
\* entry with key (1,) and the one CellChange (phone, 123, 124).
C9_FieldDiffer ==
  /\ (Done /\ KeyedCall) =>
       \A k \in Kold \cap Knew : PairCells(k, LastRow(rows1, k), LastRow(rows2, k))
  /\ (Done /\ OrderedCall) =>
       \A i \in 1..Min(Len(rows1), Len(rows2)) : PairCells(<<i - 1>>, rows1[i], rows2[i])
  /\ (/\ Done /\ KeyedCall /\ keys = <<"id">>
      /\ headers1 = RosterHeaders /\ headers2 = RosterHeaders
      /\ rows1 = <<Roster("1", "Alice", "123")>> /\ rows2 = <<Roster("1", "Alice", "124")>>)
       => /\ added = <<>> /\ removed = <<>>
          /\ modified = <<RowChange("modified", <<"1">>, <<CellChange("phone", "123", "124")>>,
                                    Some(rows1[1]), Some(rows2[1]))>>

\* The roster scenario, compared on the key id.
C9_Witness ==
  /\ Done /\ KeyedCall /\ keys = <<"id">>
  /\ rows1 = <<Roster("1", "Alice", "123")>> /\ rows2 = <<Roster("1", "Alice", "124")>>
  /\ Len(modified) = 1 /\ modified[1].key = <<"1">>
  /\ modified[1].changes = <<CellChange("phone", "123", "124")>>

\* Some branch of compare_csv_files accepts the call.
CanReturn ==
  \/ Mode(ordered, keys) = "ordered"
  \/ Mode(ordered, keys) = "keyed" /\ Orders(Kold \cup Knew) # {}
  \/ Mode(ordered, keys) = "multiset"

Position(c) == CHOOSE i \in DOMAIN ExpectedColumns : ExpectedColumns[i] = c

\* C10: the columns compared are the duplicate-free union of both header
\* lists, old columns first in old order, then the new-only ones in new order;
\* the CellChanges of a modified entry and the components of a multiset key
\* come in that order; and a call on differing header sets returns a result.
C10_SchemaDrift ==
  /\ AllColumns(headers1, headers2) = ExpectedColumns
  /\ (pc = "start" /\ Range(headers1) # Range(headers2)) => CanReturn
  /\ (Done /\ ~MultisetCall) =>
       \A i \in DOMAIN modified :
         LET ch == modified[i].changes
         IN /\ \A n \in DOMAIN ch : ch[n].column \in Range(ExpectedColumns)
            /\ \A n, m \in DOMAIN ch : n < m => Position(ch[n].column) < Position(ch[m].column)
  /\ (Done /\ MultisetCall) =>
       /\ \A i \in DOMAIN added : \E j \in DOMAIN rows2 : added[i].key = TupleOf(rows2[j])
       /\ \A i \in DOMAIN removed : \E j \in DOMAIN rows1 : removed[i].key = TupleOf(rows1[j])

\* Sources whose header sets differ and whose union follows neither header
\* list: a modified entry whose two CellChanges come in the order of the union.
C10_Witness ==
  /\ Done /\ OrderedCall
  /\ Range(headers1) # Range(headers2)
  /\ ExpectedColumns # headers1 /\ ExpectedColumns # headers2
  /\ \E i \in DOMAIN modified :
       /\ Len(modified[i].changes) = 2
       /\ modified[i].changes[1].column = ExpectedColumns[1]
       /\ modified[i].changes[2].column = ExpectedColumns[2]

(***************************************************************************)
(* change_tracker.py.  A Python str is the sequence of its characters; a   *)
(* cell of a DataFrame is a str or NaN (pandas reads an empty cell as      *)
(* NaN); dict.get on a missing column gives its default, None if none is   *)
(* passed.                                                                 *)
(***************************************************************************)
NaN == <<"float('nan')">>

PyNone == <<"None">>

\* pd.isna(x)
IsNa(x) == x = NaN \/ x = PyNone

LowerCase ==
  <<"a", "b", "c", "d", "e", "f", "g", "h", "i", "j", "k", "l", "m",
    "n", "o", "p", "q", "r", "s", "t", "u", "v", "w", "x", "y", "z">>

UpperCase ==
  <<"A", "B", "C", "D", "E", "F", "G", "H", "I", "J", "K", "L", "M",
    "N", "O", "P", "Q", "R", "S", "T", "U", "V", "W", "X", "Y", "Z">>

\* str(x): of a str the str itself, of NaN "nan", of None "None".
Str(x) ==
  IF x = NaN THEN <<"n", "a", "n">>
  ELSE IF x = PyNone THEN <<"N", "o", "n", "e">>
  ELSE x

IsSpace(c) == c = " "

UpperChar(c) ==
  IF \E i \in DOMAIN LowerCase : LowerCase[i] = c
  THEN UpperCase[CHOOSE i \in DOMAIN LowerCase : LowerCase[i] = c]
  ELSE c

LowerChar(c) ==
  IF \E i \in DOMAIN UpperCase : UpperCase[i] = c
  THEN LowerCase[CHOOSE i \in DOMAIN UpperCase : UpperCase[i] = c]
  ELSE c

\* str.upper() and str.lower()
Upper(s) == [i \in DOMAIN s |-> UpperChar(s[i])]

Lower(s) == [i \in DOMAIN s |-> LowerChar(s[i])]

\* str.strip(): without the whitespace at both ends.
Strip(s) ==
  LET I == {i \in DOMAIN s : ~IsSpace(s[i])}
  IN IF I = {} THEN <<>>
     ELSE SubSeq(s, CHOOSE i \in I : \A j \in I : i <= j, CHOOSE i \in I : \A j \in I : j <= i)

\* str.split(): the maximal runs of characters that are not whitespace.
RECURSIVE Split(_)
Split(s) ==
  IF s = <<>> THEN <<>>
  ELSE LET init == Split(SubSeq(s, 1, Len(s) - 1))
           c == s[Len(s)]
       IN IF IsSpace(c) THEN init
          ELSE IF Len(s) = 1 \/ IsSpace(s[Len(s) - 1]) THEN Append(init, <<c>>)
          ELSE [init EXCEPT ![Len(init)] = Append(@, c)]

\* ' '.join(words)
RECURSIVE Join(_)
Join(words) ==
  IF words = <<>> THEN <<>>
  ELSE IF Len(words) = 1 THEN words[1]
  ELSE Join(SubSeq(words, 1, Len(words) - 1)) \o <<" ">> \o words[Len(words)]

\* s.replace(c, by) for a single character c.
RECURSIVE Replace(_, _, _)
Replace(s, c, by) ==
  IF s = <<>> THEN <<>>
  ELSE Replace(SubSeq(s, 1, Len(s) - 1), c, by) \o (IF s[Len(s)] = c THEN by ELSE <<s[Len(s)]>>)

\* s.replace('  ', ' '): one pass from the left over non-overlapping pairs.
RECURSIVE ReplaceDoubleSpace(_)
ReplaceDoubleSpace(s) ==
  IF Len(s) < 2 THEN s
  ELSE IF s[1] = " " /\ s[2] = " " THEN <<" ">> \o ReplaceDoubleSpace(SubSeq(s, 3, Len(s)))
  ELSE <<s[1]>> \o ReplaceDoubleSpace(SubSeq(s, 2, Len(s)))

(***************************************************************************)
(* difflib.SequenceMatcher(None, a, b).ratio() with SequenceMatcher's       *)
(* default arguments: no junk function, autojunk on.                       *)
(***************************************************************************)
\* The elements "autojunk" purges from the index of b: when b has 200 or more
\* elements, those that occur more than len(b) // 100 + 1 times.
Popular(b) ==
  IF Len(b) >= 200
  THEN {c \in Range(b) : Cardinality({j \in DOMAIN b : b[j] = c}) > (Len(b) \div 100) + 1}
  ELSE {}

\* The least element of a non-empty set of numbers.
Least(S) == CHOOSE n \in S : \A m \in S : n <= m

\* The number of steps, at most room, a loop makes before it stops at one of stops.
StepsUntil(stops, room) ==
  LET limit == IF room < 0 THEN 0 ELSE room
      reached == stops \cap (0..(limit - 1))
  IN IF reached = {} THEN limit ELSE Least(reached)

\* The length of the common run of a from i and b from j, inside [i, ahi) and
\* [j, bhi) (the loop "while ... a[i + k] == b[j + k]: k += 1").
RunLength(a, b, i, ahi, j, bhi) ==
  LET room == IF ahi - i < bhi - j THEN ahi - i ELSE bhi - j
  IN StepsUntil({t \in 0..(room - 1) : a[i + t] # b[j + t]}, room)

\* The same run cut at the first purged element of b: what the index of b finds.
IndexedRun(a, b, i, ahi, j, bhi, purged) ==
  LET room == IF ahi - i < bhi - j THEN ahi - i ELSE bhi - j
  IN StepsUntil({t \in 0..(room - 1) : a[i + t] # b[j + t] \/ b[j + t] \in purged}, room)

\* The length of the common run that ends right before a[i] and b[j], inside
\* [alo, i) and [blo, j).
RunBack(a, b, i, alo, j, blo) ==
  LET room == IF i - alo < j - blo THEN i - alo ELSE j - blo
  IN StepsUntil({t \in 0..(room - 1) : a[i - t - 1] # b[j - t - 1]}, room)

\* The block of the greatest size, of those the one starting earliest in a, of
\* those the one starting earliest in b; size maps the starts to the sizes.
LongestBlock(size) ==
  CHOOSE p \in DOMAIN size :
    \A q \in DOMAIN size :
      \/ size[p] > size[q]
      \/ /\ size[p] = size[q]
         /\ \/ p[1] < q[1]
            \/ p[1] = q[1] /\ p[2] <= q[2]

\* The first loop of find_longest_match: the longest block the index of b
\* finds (none: the empty block at alo, blo).
IndexedBlock(a, b, alo, ahi, blo, bhi, purged) ==
  LET size == [p \in {q \in (alo..(ahi - 1)) \X (blo..(bhi - 1)) :
                        a[q[1]] = b[q[2]] /\ b[q[2]] \notin purged}
                 |-> IndexedRun(a, b, p[1], ahi, p[2], bhi, purged)]
  IN IF DOMAIN size = {} THEN <<alo, blo, 0>>
     ELSE <<LongestBlock(size)[1], LongestBlock(size)[2], size[LongestBlock(size)]>>

\* The loops that extend the block found by the equal elements on both sides.
ExtendedBlock(a, b, alo, ahi, blo, bhi, found, before) ==
  <<found[1] - before, found[2] - before,
    before + found[3] + RunLength(a, b, found[1] + found[3], ahi, found[2] + found[3], bhi)>>

ExtendBlock(a, b, alo, ahi, blo, bhi, found) ==
  ExtendedBlock(a, b, alo, ahi, blo, bhi, found, RunBack(a, b, found[1], alo, found[2], blo))

\* find_longest_match: <<i, j, k>>, positions counted from 1.
FindLongestMatch(a, b, alo, ahi, blo, bhi) ==
  ExtendBlock(a, b, alo, ahi, blo, bhi, IndexedBlock(a, b, alo, ahi, blo, bhi, Popular(b)))

RECURSIVE MatchesLeftOnly(_, _, _, _, _, _)
RECURSIVE Matches(_, _, _, _, _, _)

\* The block m and the blocks to its left only.
MatchesLeftOf(a, b, alo, ahi, blo, bhi, m) ==
  IF m[3] = 0 THEN 0
  ELSE m[3] + (IF alo < m[1] /\ blo < m[2] THEN MatchesLeftOnly(a, b, alo, m[1], blo, m[2]) ELSE 0)

\* The block m and the blocks found to its left and to its right.
MatchesAround(a, b, alo, ahi, blo, bhi, m) ==
  IF m[3] = 0 THEN 0
  ELSE m[3] + (IF alo < m[1] /\ blo < m[2] THEN Matches(a, b, alo, m[1], blo, m[2]) ELSE 0)
            + (IF m[1] + m[3] < ahi /\ m[2] + m[3] < bhi
               THEN Matches(a, b, m[1] + m[3], ahi, m[2] + m[3], bhi) ELSE 0)

\* Only the part left of the longest block searched further.
MatchesLeftOnly(a, b, alo, ahi, blo, bhi) ==
  MatchesLeftOf(a, b, alo, ahi, blo, bhi, FindLongestMatch(a, b, alo, ahi, blo, bhi))

\* get_matching_blocks: the summed size of the blocks found in [alo, ahi) x [blo, bhi).
Matches(a, b, alo, ahi, blo, bhi) ==
  MatchesAround(a, b, alo, ahi, blo, bhi, FindLongestMatch(a, b, alo, ahi, blo, bhi))

\* A float that is the quotient of two small integers.
Quotient(num, den) == [num |-> num, den |-> den]

\* ratio(): 2.0 * matches / (len(a) + len(b)), and 1.0 for two empty strings.
Ratio(a, b) ==
  IF Len(a) + Len(b) = 0 THEN Quotient(1, 1)
  ELSE Quotient(2 * Matches(a, b, 1, Len(a) + 1, 1, Len(b) + 1), Len(a) + Len(b))

\* similarity_score: its arguments are never NaN here, they are normalized strs.
SimilarityScore(str1, str2) ==
  Ratio(Str(IF IsNa(str1) THEN <<>> ELSE str1), Str(IF IsNa(str2) THEN <<>> ELSE str2))

\* q > n / 10 for a float q and the literals 0.8 and 0.5.
Exceeds(q, tenths) == 10 * q.num > tenths * q.den

\* round(q, 2) in hundredths: to the nearest, a tie to the even neighbour (the
\* ties of denominators below 40 are eighths, exact in binary).
Round2(q) ==
  LET n == 100 * q.num
      lo == n \div q.den
      rest == n % q.den
  IN IF 2 * rest > q.den THEN lo + 1
     ELSE IF 2 * rest < q.den THEN lo
     ELSE IF lo % 2 = 0 THEN lo ELSE lo + 1

(***************************************************************************)
(* ChangeTracker.detect_field_change                                       *)
(***************************************************************************)
\* old_str / new_str: '' for a missing value, else the stripped text.
Stripped(value) == IF IsNa(value) THEN <<>> ELSE Strip(Str(value))

\* Apostrophes dropped as well, for comparison with Normalized.
NormalizedDropApostrophe(str) ==
  Strip(ReplaceDoubleSpace(
    Replace(Replace(Replace(Lower(str), "-", <<" ">>), ",", <<" ">>), "'", <<>>)))

\* old_str_normalized / new_str_normalized
Normalized(str) ==
  Strip(ReplaceDoubleSpace(Replace(Replace(Lower(str), "-", <<" ">>), ",", <<" ">>)))

\* The thresholds met by equality as well, for comparison with ChangeType.
ChangeTypeInclusive(old_str, new_str, similarity) ==
  IF old_str = <<>> /\ new_str # <<>> THEN "Added"
  ELSE IF old_str # <<>> /\ new_str = <<>> THEN "Removed"
  ELSE IF 10 * similarity.num >= 8 * similarity.den THEN "Minor Change (Possible Typo)"
  ELSE IF 10 * similarity.num >= 5 * similarity.den THEN "Moderate Change"
  ELSE "Major Change"

\* The if/elif chain that categorizes a change.
ChangeType(old_str, new_str, similarity) ==
  IF old_str = <<>> /\ new_str # <<>> THEN "Added"
  ELSE IF old_str # <<>> /\ new_str = <<>> THEN "Removed"
  ELSE IF Exceeds(similarity, 8) THEN "Minor Change (Possible Typo)"
  ELSE IF Exceeds(similarity, 5) THEN "Moderate Change"
  ELSE "Major Change"

\* Returns Some(change) or None.
DetectFieldChange(old, new, field_name) ==
  LET old_str == Stripped(old)
      new_str == Stripped(new)
      old_str_normalized == Normalized(old_str)
      new_str_normalized == Normalized(new_str)
      similarity == SimilarityScore(old_str_normalized, new_str_normalized)
  IN IF old_str_normalized # new_str_normalized
     THEN Some([field |-> field_name,
                old_value |-> old_str,
                new_value |-> new_str,
                change_type |-> ChangeType(old_str, new_str, similarity),
                similarity |-> Round2(similarity)])
     ELSE None

(***************************************************************************)
(* The values handed to detect_field_change: every text of at most MaxLen  *)
(* characters over a letter in each case, the space and the hyphen, a      *)
(* missing cell (NaN), a missing column (None), and the texts of the       *)
(* documented examples.  Cells are not numeric.                            *)
(***************************************************************************)
MaxLen == 3

Alphabet == {"a", "B", " ", "-"}

Texts(n) == UNION {[1..k -> Alphabet] : k \in 0..n}

OBrien == <<"O", "'", "B", "r", "i", "e", "n">>

OBrienComma == <<"O", "B", "r", "i", "e", "n", ",">>

OBrienLower == <<"o", "'", "b", "r", "i", "e", "n", ",">>

Manager == <<"m", "a", "n", "a", "g", "e", "r">>

Mananger == <<"m", "a", "n", "a", "n", "g", "e", "r">>

Sales == <<"s", "a", "l", "e", "s">>

Marketing == <<"m", "a", "r", "k", "e", "t", "i", "n", "g">>

SpacedHyphen == <<"a", " ", "-", " ", "B">>

Spaced == <<"a", " ", "B">>

ExampleValues ==
  {OBrien, OBrienComma, OBrienLower, Manager, Mananger,
   Sales, Marketing, SpacedHyphen, Spaced}

Values == Texts(MaxLen) \cup {NaN, PyNone} \cup ExampleValues

InitClassifier ==
  /\ pc = "detect"
  /\ old_value \in Values
  /\ new_value \in Values
  /\ field_change = None
  /\ recheck = None
  /\ DiffUnused
  /\ TrackerUnused
  /\ NormalizerUnused
  /\ SimilarityUnused
  /\ CliUnused

\* change = self.detect_field_change(old_value, new_value, field)
DetectFieldChangeCall ==
  /\ pc = "detect"
  /\ field_change' = DetectFieldChange(old_value, new_value, "Title")
  /\ pc' = "detected"
  /\ UNCHANGED <<diffVars, trackerVars, old_value, new_value, recheck, normalizerVars, similarityVars, cli>>

\* str(record.get(field, '')).strip() of comprehensive_check.py, for the cell
\* the tracker reads with record.get(field): '' where that is None (no such
\* column), and str() of the cell otherwise, 'nan' for an empty one.
CheckedValue(value) == IF value = PyNone THEN <<>> ELSE Strip(Str(value))

\* old_normalized / new_normalized of comprehensive_check.py
CheckedNormalized(val) ==
  Strip(ReplaceDoubleSpace(Replace(Replace(Lower(val), "-", <<" ">>), ",", <<" ">>)))

\* The body of the loop over fields_to_check: Some(missed change) or None.
Recheck(old, new, field) ==
  LET old_val == CheckedValue(old)
      new_val == CheckedValue(new)
      old_normalized == CheckedNormalized(old_val)
      new_normalized == CheckedNormalized(new_val)
      similarity == SimilarityScore(old_normalized, new_normalized)
  IN IF old_normalized # new_normalized
     THEN Some([field |-> field,
                old_value |-> old_val,
                new_value |-> new_val,
                change_type |-> ChangeType(old_val, new_val, similarity),
                similarity |-> Round2(similarity)])
     ELSE None

\* The re-check of comprehensive_verification on the same pair of cells.
RecheckCall ==
  /\ pc = "detected"
  /\ recheck' = Recheck(old_value, new_value, "Title")
  /\ pc' = "rechecked"
  /\ UNCHANGED <<diffVars, trackerVars, old_value, new_value, field_change,
                 normalizerVars, similarityVars, cli>>

NextClassifier == DetectFieldChangeCall \/ RecheckCall

SpecClassifier == InitClassifier /\ [][NextClassifier]_vars

Detected == pc = "detected"

Reported == Detected /\ field_change # None

\* The normalization the classifier is documented to apply: lowercase, hyphens
\* and commas to spaces, every run of spaces to one space, trimmed.
Documented(value) ==
  LET text == IF IsNa(value) THEN <<>> ELSE Str(value)
  IN Join(Split(Replace(Replace(Lower(text), "-", <<" ">>), ",", <<" ">>)))

Label == field_change[1].change_type

\* The similarity ratio the label of the reported change was chosen by.
Similarity == SimilarityScore(Normalized(Stripped(old_value)), Normalized(Stripped(new_value)))

\* C14: detect_field_change returns None when the documented normalizations of
\* the old and the new value are equal, and reports a change when they differ.
C14_Suppression ==
  Detected => ((Documented(old_value) = Documented(new_value)) <=> (field_change = None))

\* C15 as stated: "O'Brien" against "OBrien," is suppressed.
C15_OBrienSuppressed ==
  (Detected /\ old_value = OBrien /\ new_value = OBrienComma) => field_change = None

\* C15: "O'Brien" against "OBrien," keeps the apostrophe on one side only, so
\* a change is reported (a minor one, similarity 0.92), while "O'Brien" against
\* "o'brien,", which differ in case and a comma, is suppressed.
C15_ApostropheKept ==
  /\ (Detected /\ old_value = OBrien /\ new_value = OBrienComma) =>
       /\ field_change # None
       /\ Label = "Minor Change (Possible Typo)"
       /\ field_change[1].similarity = 92
  /\ (Detected /\ old_value = OBrien /\ new_value = OBrienLower) => field_change = None

C15_Witness ==
  Reported /\ old_value = OBrien /\ new_value = OBrienComma

\* C16: a reported change is labelled Added exactly when the normalized old
\* value is empty and the normalized new value is not, and Removed exactly when
\* the normalized old value is not empty and the normalized new value is.
C16_EmptinessLabels ==
  Reported =>
    /\ (Label = "Added") <=> (Documented(old_value) = <<>> /\ Documented(new_value) # <<>>)
    /\ (Label = "Removed") <=> (Documented(old_value) # <<>> /\ Documented(new_value) = <<>>)

\* C17: a reported change of two non-empty values is a minor change iff the
\* similarity exceeds 0.8, a moderate change iff it exceeds 0.5 but not 0.8, a
\* major change iff it does not exceed 0.5; every reported change carries one
\* of the five labels.
C17_Thresholds ==
  Reported =>
    /\ Label \in {"Added", "Removed", "Minor Change (Possible Typo)",
                  "Moderate Change", "Major Change"}
    /\ (field_change[1].old_value # <<>> /\ field_change[1].new_value # <<>>) =>
         /\ (Label = "Minor Change (Possible Typo)") <=> (10 * Similarity.num > 8 * Similarity.den)
         /\ (Label = "Moderate Change") <=>
              (10 * Similarity.num > 5 * Similarity.den /\ 10 * Similarity.num <= 8 * Similarity.den)
         /\ (Label = "Major Change") <=> (10 * Similarity.num <= 5 * Similarity.den)

\* A similarity of exactly 0.8, labelled a moderate change.
C17_Witness ==
  /\ Reported
  /\ 10 * Similarity.num = 8 * Similarity.den
  /\ Label = "Moderate Change"

\* C18: "manager" against "mananger" has a similarity above 0.8 and is a minor
\* change; "sales" against "marketing" has a similarity of at most 0.5 and is a
\* major change.
C18_ScenarioE ==
  /\ (Detected /\ old_value = Manager /\ new_value = Mananger) =>
       /\ field_change # None
       /\ 10 * Similarity.num > 8 * Similarity.den
       /\ field_change[1].similarity > 80
       /\ Label = "Minor Change (Possible Typo)"
  /\ (Detected /\ old_value = Sales /\ new_value = Marketing) =>
       /\ field_change # None
       /\ 10 * Similarity.num <= 5 * Similarity.den
       /\ field_change[1].similarity <= 50
       /\ Label = "Major Change"

C18_Witness ==
  Reported /\ old_value = Manager /\ new_value = Mananger

(***************************************************************************)
(* ChangeTracker: identity keys, matching and aggregation.  A row of a     *)
(* DataFrame is a function from the columns of its file to cells.          *)
(***************************************************************************)
\* row.get(col, default)
RowGet(row, col, default) == IF col \in DOMAIN row THEN row[col] ELSE default

\* Apostrophes removed as well, for comparison with NormalizeName.
NormalizeNameDropApostrophe(name) ==
  IF IsNa(name) \/ name = <<>> THEN <<>>
  ELSE Strip(Replace(Replace(Replace(Replace(Upper(Join(Split(name))),
                                             ",", <<>>), ".", <<>>), "-", <<" ">>), "'", <<>>))

NormalizeName(name) ==
  IF IsNa(name) \/ name = <<>> THEN <<>>
  ELSE Strip(Replace(Replace(Replace(Upper(Join(Split(name))), ",", <<>>), ".", <<>>), "-", <<" ">>))

CreateUserKey(row) ==
  LET eng_name == NormalizeName(Str(RowGet(row, "Name", <<>>)))
      chi_name == IF ~IsNa(RowGet(row, "Chi Name", PyNone))
                  THEN Strip(Str(RowGet(row, "Chi Name", <<>>)))
                  ELSE <<>>
  IN IF chi_name # <<>> THEN eng_name \o <<"|">> \o chi_name ELSE eng_name

\* old_users / new_users: the last row of each non-empty key.
Users(data) ==
  LET keyset == {CreateUserKey(data[i]) : i \in DOMAIN data} \ {<<>>}
      last(k) == CHOOSE i \in DOMAIN data :
                   /\ CreateUserKey(data[i]) = k
                   /\ \A j \in DOMAIN data : j > i => CreateUserKey(data[j]) # k
  IN [k \in keyset |-> data[last(k)]]

\* New joiners counted as all new users, for comparison with CommonStatistics.
CommonStatisticsAllNew(old_users, new_users) ==
  [common_users |-> Cardinality(DOMAIN old_users \cap DOMAIN new_users),
   new_joiners |-> Cardinality(DOMAIN new_users),
   resignees |-> Cardinality(DOMAIN old_users \ DOMAIN new_users)]

\* "Update statistics" of find_common_users.
CommonStatistics(old_users, new_users) ==
  [common_users |-> Cardinality(DOMAIN old_users \cap DOMAIN new_users),
   new_joiners |-> Cardinality(DOMAIN new_users \ DOMAIN old_users),
   resignees |-> Cardinality(DOMAIN old_users \ DOMAIN new_users)]

fields_to_compare == <<"Name", "Title", "Phone", "Fax", "Location">>

\* user_changes after the first n fields.
RECURSIVE UserChanges(_, _, _)
UserChanges(old_record, new_record, n) ==
  IF n = 0 THEN <<>>
  ELSE UserChanges(old_record, new_record, n - 1)
       \o DetectFieldChange(RowGet(old_record, fields_to_compare[n], PyNone),
                            RowGet(new_record, fields_to_compare[n], PyNone),
                            fields_to_compare[n])

ChangesEntry(old_record, user_changes) ==
  [user |-> RowGet(old_record, "Name", <<>>),
   chinese_name |-> RowGet(old_record, "Chi Name", <<>>),
   changes |-> user_changes]

\* One entry for each changed field, for comparison with CompareUsersLoop.
RECURSIVE CompareUsersLoopPerField(_, _, _, _)
CompareUsersLoopPerField(order, old_users, new_users, n) ==
  IF n = 0 THEN [changes |-> <<>>, total_field_changes |-> 0, users_with_changes |-> {}]
  ELSE LET done == CompareUsersLoopPerField(order, old_users, new_users, n - 1)
           user_key == order[n]
           user_changes ==
             UserChanges(old_users[user_key], new_users[user_key], Len(fields_to_compare))
       IN [changes |-> done.changes \o
                         [i \in DOMAIN user_changes |->
                            ChangesEntry(old_users[user_key], <<user_changes[i]>>)],
           total_field_changes |-> done.total_field_changes + Len(user_changes),
           users_with_changes |->
             IF user_changes # <<>> THEN done.users_with_changes \cup {user_key}
             ELSE done.users_with_changes]

\* The loop of compare_users over the first n common users: the entries it
\* appends, the field changes it counts, its set users_with_changes.
RECURSIVE CompareUsersLoop(_, _, _, _)
CompareUsersLoop(order, old_users, new_users, n) ==
  IF n = 0 THEN [changes |-> <<>>, total_field_changes |-> 0, users_with_changes |-> {}]
  ELSE LET done == CompareUsersLoop(order, old_users, new_users, n - 1)
           user_key == order[n]
           user_changes ==
             UserChanges(old_users[user_key], new_users[user_key], Len(fields_to_compare))
       IN [changes |-> IF user_changes # <<>>
                       THEN Append(done.changes, ChangesEntry(old_users[user_key], user_changes))
                       ELSE done.changes,
           total_field_changes |-> done.total_field_changes + Len(user_changes),
           users_with_changes |->
             IF user_changes # <<>> THEN done.users_with_changes \cup {user_key}
             ELSE done.users_with_changes]

\* The tracker after __init__; calls counts the analyze_changes passes made,
\* set_order is the order in which the sets of this process enumerate the
\* common keys (fixed by the hash seed once the process runs).
NewTracker ==
  [old_data |-> PyNone,
   new_data |-> PyNone,
   changes |-> <<>>,
   statistics |-> [total_old_records |-> 0,
                   total_new_records |-> 0,
                   common_users |-> 0,
                   new_joiners |-> 0,
                   resignees |-> 0,
                   users_with_changes |-> 0,
                   total_field_changes |-> 0],
   calls |-> 0,
   set_order |-> <<>>]

\* load_data, find_common_users and compare_users on the tracker self, with
\* the common keys enumerated in the order hashOrder.
AnalyzeChanges(self, old_file, new_file, hashOrder) ==
  LET old_users == Users(old_file)
      new_users == Users(new_file)
      found == CommonStatistics(old_users, new_users)
      compared == CompareUsersLoop(hashOrder, old_users, new_users, Len(hashOrder))
  IN [old_data |-> old_file,
      new_data |-> new_file,
      changes |-> self.changes \o compared.changes,
      statistics |->
        [total_old_records |-> Len(old_file),
         total_new_records |-> Len(new_file),
         common_users |-> found.common_users,
         new_joiners |-> found.new_joiners,
         resignees |-> found.resignees,
         users_with_changes |-> Cardinality(compared.users_with_changes),
         total_field_changes |->
           self.statistics.total_field_changes + compared.total_field_changes],
      calls |-> self.calls + 1,
      set_order |-> hashOrder]

(***************************************************************************)
(* The phone lists the tracker is run on: up to MaxRows rows of a small    *)
(* staff (two spellings of one name, a second person with a Chinese name,  *)
(* a row with an empty Name cell, a row with a blank Name), and one-row    *)
(* lists of the documented examples and of the corner cases of the key.    *)
(***************************************************************************)
MaxCalls == 2

Row(name, chi_name, title, phone) ==
  ("Name" :> name) @@ ("Chi Name" :> chi_name) @@ ("Title" :> title) @@ ("Phone" :> phone)

Staff ==
  {Row(<<"a", " ", "b">>, NaN, <<"x">>, <<"p">>),
   Row(<<"A", "-", "B">>, NaN, <<"y">>, <<"q">>),
   Row(<<"c">>, <<"C">>, <<"x">>, <<"p">>),
   Row(NaN, NaN, <<"x">>, <<"p">>),
   Row(<<" ">>, NaN, <<"y">>, <<"p">>)}

OBrienJohn == <<"O", "'", "B", "r", "i", "e", "n", ",", " ", "J", "o", "h", "n">>

OBrienJohnPlain == <<"O", "B", "R", "I", "E", "N", " ", "J", "O", "H", "N">>

OBrienJohnUpper == <<"O", "'", "B", "R", "I", "E", "N", " ", "J", "O", "H", "N">>

\* A name that holds the separator, and the name and Chinese name it collides with.
PipeInName == Row(<<"a", "|", "C">>, NaN, <<"x">>, <<"p">>)

PipeByChiName == Row(<<"a">>, <<"C">>, <<"x">>, <<"p">>)

\* A row of a file without the columns Name and Chi Name.
NoNameColumn == ("Title" :> <<"x">>) @@ ("Phone" :> <<"p">>)

SpecialRows ==
  {Row(OBrienJohn, NaN, <<"x">>, <<"p">>),
   Row(OBrienJohnPlain, NaN, <<"x">>, <<"p">>),
   Row(OBrienJohnUpper, NaN, <<"x">>, <<"p">>),
   PipeInName, PipeByChiName, NoNameColumn}

PhoneLists ==
  UNION {[1..n -> Staff] : n \in 0..MaxRows} \cup {<<r>> : r \in SpecialRows}

InitTracker ==
  /\ pc = "constructed"
  /\ old_csv \in PhoneLists
  /\ new_csv \in PhoneLists
  /\ tracker = NewTracker
  /\ report = <<>>
  /\ verifier = <<>>
  /\ DiffUnused
  /\ ClassifierUnused
  /\ NormalizerUnused
  /\ SimilarityUnused
  /\ CliUnused

\* tracker.analyze_changes(), on a tracker that made fewer than MaxCalls passes.
AnalyzeChangesCall ==
  /\ pc \in {"constructed", "analyzed"}
  /\ tracker.calls < MaxCalls
  /\ \E hashOrder \in Orders(DOMAIN Users(old_csv) \cap DOMAIN Users(new_csv)) :
       /\ tracker.calls = 0 \/ hashOrder = tracker.set_order
       /\ tracker' = AnalyzeChanges(tracker, old_csv, new_csv, hashOrder)
  /\ pc' = "analyzed"
  /\ UNCHANGED <<diffVars, old_csv, new_csv, report, verifier, classifierVars, normalizerVars, similarityVars, cli>>

\* json.dump of a cell of the report: a str in quotes (ensure_ascii=False), a
\* float NaN as the token NaN; json.load reads both back.
JsonDump(x) == IF x = NaN THEN <<"N", "a", "N">> ELSE <<"\"">> \o x \o <<"\"">>

JsonLoad(text) == IF text[1] = "\"" THEN SubSeq(text, 2, Len(text) - 1) ELSE NaN

\* The content of change_tracking_report.json (without its timestamp, which
\* nothing reads back).
GenerateJsonReport(self) ==
  [statistics |-> self.statistics,
   changes |->
     [i \in DOMAIN self.changes |->
        [user |-> JsonDump(self.changes[i].user),
         chinese_name |-> JsonDump(self.changes[i].chinese_name),
         changes |->
           [j \in DOMAIN self.changes[i].changes |->
              [self.changes[i].changes[j] EXCEPT !.old_value = JsonDump(@),
                                                 !.new_value = JsonDump(@)]]]]]

\* tracker.generate_report(): the JSON report of the tracker's state replaces
\* the report file.
GenerateReportCall ==
  /\ pc = "analyzed"
  /\ report' = Some(GenerateJsonReport(tracker))
  /\ pc' = "reported"
  /\ UNCHANGED <<diffVars, old_csv, new_csv, tracker, verifier, classifierVars,
                 normalizerVars, similarityVars, cli>>

\* "if chinese_name:" for a value read from the report: a str or NaN.
Truthy(x) == x # <<>>

\* The key comprehensive_verification recreates for an entry of the report.
RecreatedKey(change) ==
  LET name == JsonLoad(change.user)
      chinese_name == JsonLoad(change.chinese_name)
  IN IF Truthy(chinese_name)
     THEN NormalizeName(name) \o <<"|">> \o Str(chinese_name)
     ELSE NormalizeName(name)

fields_to_check == <<"Name", "Title", "Phone", "Fax", "Location">>

\* user_missed_changes after the first n fields.
RECURSIVE UserMissedChanges(_, _, _)
UserMissedChanges(old_record, new_record, n) ==
  IF n = 0 THEN <<>>
  ELSE UserMissedChanges(old_record, new_record, n - 1)
       \o Recheck(RowGet(old_record, fields_to_check[n], PyNone),
                  RowGet(new_record, fields_to_check[n], PyNone),
                  fields_to_check[n])

\* missed_changes after the first n users of the order the dict unchanged_users
\* is enumerated in.
RECURSIVE MissedChanges(_, _, _, _)
MissedChanges(order, old_users, new_users, n) ==
  IF n = 0 THEN <<>>
  ELSE LET done == MissedChanges(order, old_users, new_users, n - 1)
           user_key == order[n]
           user_missed_changes ==
             UserMissedChanges(old_users[user_key], new_users[user_key], Len(fields_to_check))
       IN IF user_missed_changes # <<>>
          THEN Append(done, [user_key |-> user_key,
                             user_name |-> RowGet(old_users[user_key], "Name", <<>>),
                             chinese_name |-> RowGet(old_users[user_key], "Chi Name", <<>>),
                             changes |-> user_missed_changes])
          ELSE done

\* comprehensive_verification on the report file and the two phone lists, with
\* the common keys enumerated in the order hashOrder: the sets and the list
\* its summary is printed from.
ComprehensiveVerification(json_report, old_file, new_file, hashOrder) ==
  LET changed_users_keys == {RecreatedKey(json_report.changes[i]) : i \in DOMAIN json_report.changes}
      old_users == Users(old_file)
      new_users == Users(new_file)
      common_users == DOMAIN old_users \cap DOMAIN new_users
      unchanged_users == common_users \ changed_users_keys
      unchanged_order == Filter(hashOrder, unchanged_users)
  IN [changed_users_keys |-> changed_users_keys,
      common_users |-> common_users,
      unchanged_users |-> unchanged_users,
      missed_changes |-> MissedChanges(unchanged_order, old_users, new_users, Len(unchanged_order))]

\* python comprehensive_check.py, run on the report and the same two files.
ComprehensiveVerificationCall ==
  /\ pc = "reported"
  /\ \E hashOrder \in Orders(DOMAIN Users(old_csv) \cap DOMAIN Users(new_csv)) :
       verifier' = Some(ComprehensiveVerification(report[1], old_csv, new_csv, hashOrder))
  /\ pc' = "verified"
  /\ UNCHANGED <<diffVars, old_csv, new_csv, tracker, report, classifierVars,
                 normalizerVars, similarityVars, cli>>

NextTracker == AnalyzeChangesCall \/ GenerateReportCall \/ ComprehensiveVerificationCall

SpecTracker == InitTracker /\ [][NextTracker]_vars

\* The tracker made exactly one analyze_changes pass.
AnalyzedOnce == pc = "analyzed" /\ tracker.calls = 1

Stat(name) == tracker.statistics[name]

\* A cell that is absent, empty or blank.
Blank(row, col) ==
  \/ col \notin DOMAIN row
  \/ row[col] = NaN
  \/ Strip(row[col]) = <<>>

\* A row with no primary and no secondary identity field.
Unidentified(row) == Blank(row, "Name") /\ Blank(row, "Chi Name")

Identified(data) == {i \in DOMAIN data : ~Unidentified(data[i])}

\* The non-empty identity keys of a source, and the last row of a key.
IdentityKeys(data) == {CreateUserKey(data[i]) : i \in DOMAIN data} \ {<<>>}

LastOf(data, k) ==
  data[CHOOSE i \in DOMAIN data :
         /\ CreateUserKey(data[i]) = k
         /\ \A j \in DOMAIN data : CreateUserKey(data[j]) = k => j <= i]

CommonKeys == IdentityKeys(old_csv) \cap IdentityKeys(new_csv)

\* The identity an entry of changes was made for.
EntryKey(entry) ==
  CreateUserKey(("Name" :> entry.user) @@ ("Chi Name" :> entry.chinese_name))

EntriesOf(k) == {i \in DOMAIN tracker.changes : EntryKey(tracker.changes[i]) = k}

\* The compared fields whose old and new value make the classifier report a change.
ChangedFields(old_record, new_record) ==
  {f \in Range(fields_to_compare) :
     DetectFieldChange(RowGet(old_record, f, PyNone), RowGet(new_record, f, PyNone), f) # None}

RECURSIVE SumOfChanges(_)
SumOfChanges(entries) ==
  IF entries = <<>> THEN 0
  ELSE SumOfChanges(SubSeq(entries, 1, Len(entries) - 1)) + Len(entries[Len(entries)].changes)

\* C11: rows without a Name and without a Chi Name are counted in none of
\* common_users, new_joiners and resignees and yield no entry of changes: the
\* counters of each side stay within the number of its other rows, and every
\* entry of changes names a user.
C11_EmptyKeyExcluded ==
  AnalyzedOnce =>
    /\ Stat("common_users") + Stat("resignees") <= Cardinality(Identified(old_csv))
    /\ Stat("common_users") + Stat("new_joiners") <= Cardinality(Identified(new_csv))
    /\ \A i \in DOMAIN tracker.changes :
         ~Unidentified(("Name" :> tracker.changes[i].user)
                       @@ ("Chi Name" :> tracker.changes[i].chinese_name))

KeyComponents(row) ==
  <<NormalizeName(Str(RowGet(row, "Name", <<>>))),
    IF Blank(row, "Chi Name") THEN <<>> ELSE Strip(row["Chi Name"])>>

\* C13: two rows whose key components differ never get the same identity key,
\* so a row of the old source and a row of the new source with different
\* components are never matched as one common user.
C13_KeyInjective ==
  AnalyzedOnce =>
    \A i \in DOMAIN old_csv : \A j \in DOMAIN new_csv :
      KeyComponents(old_csv[i]) # KeyComponents(new_csv[j]) =>
        CreateUserKey(old_csv[i]) # CreateUserKey(new_csv[j])

\* C19: after one pass every common key has at most one entry in changes; the
\* entry lists exactly the compared fields the classifier reports as changed,
\* each once, and a common key without such a field has no entry; no entry
\* belongs to another key.
C19_OneEntryPerIdentity ==
  AnalyzedOnce =>
    /\ \A i \in DOMAIN tracker.changes : EntryKey(tracker.changes[i]) \in CommonKeys
    /\ \A k \in CommonKeys :
         LET changed == ChangedFields(LastOf(old_csv, k), LastOf(new_csv, k))
         IN /\ Cardinality(EntriesOf(k)) <= 1
            /\ (changed = {}) <=> (EntriesOf(k) = {})
            /\ \A i \in EntriesOf(k) :
                 LET listed == tracker.changes[i].changes
                 IN /\ {listed[n].field : n \in DOMAIN listed} = changed
                    /\ Len(listed) = Cardinality(changed)

\* One entry that lists two changed fields.
C19_Witness ==
  /\ AnalyzedOnce
  /\ \E i \in DOMAIN tracker.changes : Len(tracker.changes[i].changes) >= 2

\* C20: after one pass common_users + new_joiners is the number of non-empty
\* keys of the new source, common_users + resignees that of the old source,
\* users_with_changes is the number of entries of changes and at most
\* common_users, total_field_changes is the number of field changes listed.
C20_CounterConsistency ==
  AnalyzedOnce =>
    /\ Stat("common_users") + Stat("new_joiners") = Cardinality(IdentityKeys(new_csv))
    /\ Stat("common_users") + Stat("resignees") = Cardinality(IdentityKeys(old_csv))
    /\ Stat("users_with_changes") = Len(tracker.changes)
    /\ Stat("users_with_changes") <= Stat("common_users")
    /\ Stat("total_field_changes") = SumOfChanges(tracker.changes)

\* A pass with a changed common user, a resignee and a new joiner.
C20_Witness ==
  /\ AnalyzedOnce
  /\ Stat("users_with_changes") >= 1
  /\ Stat("resignees") >= 1
  /\ Stat("new_joiners") >= 1

\* C21: once a tracker has made a pass, a further analyze_changes pass over the
\* same inputs leaves its statistics and its changes as they were.
C21_NoLeakage ==
  [][tracker.calls >= 1 =>
       /\ tracker'.statistics = tracker.statistics
       /\ tracker'.changes = tracker.changes]_vars

\* C23: in every result an added entry has kind "added", no CellChange, no old
\* row and a new row; a removed entry has kind "removed", no CellChange, an old
\* row and no new row; a modified entry has kind "modified", at least one
\* CellChange, both rows, and old # new in each of its CellChanges.
C23_RowChangeShape ==
  Done =>
    /\ \A i \in DOMAIN added :
         /\ added[i].kind = "added"
         /\ added[i].changes = <<>>
         /\ added[i].row_old = None
         /\ Len(added[i].row_new) = 1
    /\ \A i \in DOMAIN removed :
         /\ removed[i].kind = "removed"
         /\ removed[i].changes = <<>>
         /\ Len(removed[i].row_old) = 1
         /\ removed[i].row_new = None
    /\ \A i \in DOMAIN modified :
         /\ modified[i].kind = "modified"
         /\ Len(modified[i].changes) >= 1
         /\ Len(modified[i].row_old) = 1
         /\ Len(modified[i].row_new) = 1
         /\ \A n \in DOMAIN modified[i].changes :
              modified[i].changes[n].old # modified[i].changes[n].new

\* A result with entries of all three kinds.
C23_Witness ==
  Done /\ added # <<>> /\ removed # <<>> /\ modified # <<>>

\* The result of the same call with the two sources exchanged.
Exchanged ==
  IF OrderedCall THEN CompareOrdered(headers2, rows2, headers1, rows1)
  ELSE IF KeyedCall
  THEN CompareUnordered(headers2, rows2, headers1, rows1, keys,
                        CHOOSE o \in Orders(KeySet(rows1, keys) \cup KeySet(rows2, keys)) : TRUE)
  ELSE CompareMultiset(headers2, rows2, headers1, rows1)

\* The sequences a and b hold the same items the same number of times.
SameBag(a, b) ==
  \A x \in Range(a) \cup Range(b) :
    Cardinality({i \in DOMAIN a : a[i] = x}) = Cardinality({i \in DOMAIN b : b[i] = x})

NewRows(entries) == [i \in DOMAIN entries |-> entries[i].row_new]

OldRows(entries) == [i \in DOMAIN entries |-> entries[i].row_old]

Cells(entry) ==
  {<<entry.changes[n].column, entry.changes[n].old, entry.changes[n].new>> :
     n \in DOMAIN entry.changes}

Mirrored(entry) ==
  {<<entry.changes[n].column, entry.changes[n].new, entry.changes[n].old>> :
     n \in DOMAIN entry.changes}

\* C29: the call with the sources exchanged reports as removed the rows this
\* call reports as added and as added the rows this call reports as removed,
\* each as often; it modifies the same keys, with every CellChange mirrored.
C29_DirectionSymmetry ==
  Done =>
    /\ SameBag(NewRows(added), OldRows(Exchanged.removed))
    /\ SameBag(OldRows(removed), NewRows(Exchanged.added))
    /\ KeysOf(modified) = KeysOf(Exchanged.modified)
    /\ \A i \in DOMAIN modified : \A j \in DOMAIN Exchanged.modified :
         modified[i].key = Exchanged.modified[j].key =>
           /\ Cells(modified[i]) = Mirrored(Exchanged.modified[j])
           /\ modified[i].row_old = Exchanged.modified[j].row_new
           /\ modified[i].row_new = Exchanged.modified[j].row_old

\* A keyed call on sources of different columns with a modified and an added entry.
C29_Witness ==
  /\ Done
  /\ KeyedCall
  /\ Range(headers1) # Range(headers2)
  /\ modified # <<>>
  /\ added # <<>>

\* C30: in keyed and ordered mode no key has two entries among added, removed
\* and modified; in ordered mode |added| = max(0, lenNew - lenOld) and
\* |removed| = max(0, lenOld - lenNew); in multiset mode no tuple is both added
\* and removed and lenOld - |removed| = lenNew - |added|.
C30_DisjointPartition ==
  Done =>
    /\ ~MultisetCall =>
         /\ Cardinality(KeysOf(added) \cup KeysOf(removed) \cup KeysOf(modified))
              = Len(added) + Len(removed) + Len(modified)
    /\ OrderedCall =>
         /\ added = <<>> \/ removed = <<>>
         /\ Len(added) = Max(0, Len(rows2) - Len(rows1))
         /\ Len(removed) = Max(0, Len(rows1) - Len(rows2))
    /\ MultisetCall =>
         /\ KeysOf(added) \cap KeysOf(removed) = {}
         /\ Len(rows1) - Len(removed) = Len(rows2) - Len(added)

\* A multiset call that removes two copies of one row and adds another row.
C30_Witness ==
  /\ Done
  /\ MultisetCall
  /\ added # <<>>
  /\ Len(removed) >= 2
  /\ Cardinality(KeysOf(removed)) = 1

(***************************************************************************)
(* normalize_name on its own: every name of at most MaxLen characters over *)
(* the letters, the space and the punctuation it treats, and the names of  *)
(* the documented examples.                                                *)
(***************************************************************************)
NameAlphabet == Alphabet \cup {",", "."}

SpacedComma == <<"a", " ", ",", " ", "B", ".">>

Names ==
  UNION {[1..k -> NameAlphabet] : k \in 0..MaxLen}
    \cup {SpacedHyphen, SpacedComma, OBrienJohn, OBrienJohnPlain, OBrienJohnUpper}

InitNormalizer ==
  /\ pc = "normalize"
  /\ raw_name \in Names
  /\ normalized_name = <<>>
  /\ DiffUnused
  /\ TrackerUnused
  /\ ClassifierUnused
  /\ SimilarityUnused
  /\ CliUnused

\* normalized = tracker.normalize_name(raw_name)
NormalizeNameCall ==
  /\ pc = "normalize"
  /\ normalized_name' = NormalizeName(raw_name)
  /\ pc' = "normalized"
  /\ UNCHANGED <<diffVars, trackerVars, classifierVars, raw_name, similarityVars, cli>>

NextNormalizer == NormalizeNameCall

SpecNormalizer == InitNormalizer /\ [][NextNormalizer]_vars

NameNormalized == pc = "normalized"

\* C24: the result of normalize_name holds no period, comma or hyphen and no
\* lowercase letter, neither starts nor ends with a space, holds no two spaces
\* in a row, and is left as it is by normalize_name.
C24_NormalForm ==
  NameNormalized =>
    /\ Range(normalized_name) \cap {".", ",", "-"} = {}
    /\ Range(normalized_name) \cap Range(LowerCase) = {}
    /\ normalized_name # <<>> =>
         /\ normalized_name[1] # " "
         /\ normalized_name[Len(normalized_name)] # " "
    /\ \A i \in 1..(Len(normalized_name) - 1) :
         ~(normalized_name[i] = " " /\ normalized_name[i + 1] = " ")
    /\ NormalizeName(normalized_name) = normalized_name

(***************************************************************************)
(* ChangeTracker.similarity_score as a program of its own: one call on two *)
(* strings.                                                                *)
(***************************************************************************)
\* Two long strings: a run of 200 "a" after an "x", and before a "y".
LongAfterX == [i \in 1..201 |-> IF i = 1 THEN "x" ELSE "a"]

LongBeforeY == [i \in 1..201 |-> IF i = 201 THEN "y" ELSE "a"]

Strings == Texts(MaxLen) \cup ExampleValues \cup {LongAfterX, LongBeforeY}

InitSimilarity ==
  /\ pc = "score"
  /\ text1 \in Strings
  /\ text2 \in Strings
  /\ score = <<>>
  /\ DiffUnused
  /\ TrackerUnused
  /\ ClassifierUnused
  /\ NormalizerUnused
  /\ CliUnused

\* score = tracker.similarity_score(text1, text2)
SimilarityScoreCall ==
  /\ pc = "score"
  /\ score' = SimilarityScore(text1, text2)
  /\ pc' = "scored"
  /\ UNCHANGED <<diffVars, trackerVars, classifierVars, normalizerVars, text1, text2, cli>>

NextSimilarity == SimilarityScoreCall

SpecSimilarity == InitSimilarity /\ [][NextSimilarity]_vars

Scored == pc = "scored"

\* The longest common contiguous run of a[alo..ahi-1] and b[blo..bhi-1], the
\* earliest in a and then in b of the longest ones: <<i, j, k>>.
LongestRun(a, b, alo, ahi, blo, bhi) ==
  LET cand == (alo..(ahi - 1)) \X (blo..(bhi - 1))
      size == [p \in cand |-> RunLength(a, b, p[1], ahi, p[2], bhi)]
      sizes == {size[p] : p \in cand}
      longest == CHOOSE k \in sizes : \A m \in sizes : m <= k
      runs == {p \in cand : size[p] = longest}
      first == CHOOSE p \in runs :
                 \A q \in runs : p[1] < q[1] \/ (p[1] = q[1] /\ p[2] <= q[2])
  IN IF cand = {} THEN <<alo, blo, 0>> ELSE <<first[1], first[2], longest>>

\* M: the summed length of the runs found by taking the longest common run and
\* recursing on the parts to its left and to its right.
RECURSIVE MatchingRuns(_, _, _, _, _, _)
MatchingRuns(a, b, alo, ahi, blo, bhi) ==
  LET m == LongestRun(a, b, alo, ahi, blo, bhi)
  IN IF m[3] = 0 THEN 0
     ELSE m[3] + MatchingRuns(a, b, alo, m[1], blo, m[2])
               + MatchingRuns(a, b, m[1] + m[3], ahi, m[2] + m[3], bhi)

\* C26: for two strings of total length above 0, similarity_score is
\* 2 * M / (len(old) + len(new)) with M the summed length of the recursively
\* found longest common runs; it lies in [0, 1], is 1.0 exactly when the two
\* strings are identical and 0.0 exactly when they share no character.
C26_SimilarityRatio ==
  Scored /\ Len(text1) + Len(text2) > 0 =>
    /\ score.den = Len(text1) + Len(text2)
    /\ score.num = 2 * MatchingRuns(text1, text2, 1, Len(text1) + 1, 1, Len(text2) + 1)
    /\ 0 <= score.num /\ score.num <= score.den
    /\ score.num = score.den <=> text1 = text2
    /\ score.num = 0 <=> Range(text1) \cap Range(text2) = {}

(***************************************************************************)
(* The normalization inside detect_field_change (C25).                     *)
(***************************************************************************)
\* The normalized strings detect_field_change compares.
OldNormalized == Normalized(Stripped(old_value))

NewNormalized == Normalized(Stripped(new_value))

NoSpaceRun(str) == \A i \in 1..(Len(str) - 1) : ~(str[i] = " " /\ str[i + 1] = " ")

\* C25: each value is lowercased, has hyphens and commas replaced by spaces,
\* every run of spaces collapsed to one space, and is trimmed: the normalized
\* strings hold no two spaces in a row, and two values that differ only in
\* case, in hyphen or comma against space, or in the length of their runs of
\* spaces are suppressed.
C25_RunsCollapsed ==
  Detected =>
    /\ NoSpaceRun(OldNormalized) /\ NoSpaceRun(NewNormalized)
    /\ OldNormalized = Documented(old_value) /\ NewNormalized = Documented(new_value)
    /\ Documented(old_value) = Documented(new_value) => field_change = None

(***************************************************************************)
(* The re-check of comprehensive_check.py against detect_field_change      *)
(* (C28).                                                                  *)
(***************************************************************************)
Rechecked == pc = "rechecked"

\* C28: on every pair of old and new cells, a missing one included, the
\* re-check and detect_field_change agree on whether there is a change, and on
\* its change_type and similarity: the re-check finds a change only where the
\* tracker reported one.
C28_RecheckAgrees ==
  Rechecked =>
    /\ (recheck = None) <=> (field_change = None)
    /\ (recheck # None /\ field_change # None) =>
         /\ recheck[1].change_type = field_change[1].change_type
         /\ recheck[1].similarity = field_change[1].similarity

(***************************************************************************)
(* The partition comprehensive_verification prints (C27).                  *)
(***************************************************************************)
Verified == pc = "verified"

\* C27: every entry of the report leads back to a key of the common users, so
\* the common users split into changed and unchanged ones:
\* len(changed_users_keys) + len(unchanged_users) = len(common_users).
C27_VerifierPartition ==
  Verified =>
    /\ verifier[1].changed_users_keys \subseteq verifier[1].common_users
    /\ Cardinality(verifier[1].changed_users_keys) + Cardinality(verifier[1].unchanged_users)
         = Cardinality(verifier[1].common_users)

(***************************************************************************)
(* csv_diff.__main__: one run of main on two paths.  A path either holds a *)
(* file _read_csv can read (Some(source)) or one it cannot (None); the     *)
(* options left at their defaults (encodings, delimiter, raw diff, row     *)
(* limit) are not part of the state.                                       *)
(***************************************************************************)
Formats == {"markdown", "json", "summary", "html"}

\* The characters of the column names, for the text of --key.
ColumnText ==
  ("" :> <<>>) @@ ("id" :> <<"i", "d">>) @@ ("name" :> <<"n", "a", "m", "e">>)
    @@ ("phone" :> <<"p", "h", "o", "n", "e">>)

ColumnNamed(text) == CHOOSE c \in DOMAIN ColumnText : ColumnText[c] = text

\* The values of --key: absent, one column, two columns with a space after
\* the comma, another column.
KeyArgs ==
  {<<>>, ColumnText["id"], ColumnText["id"] \o <<",", " ">> \o ColumnText["name"],
   ColumnText["name"]}

\* s.split(",")
RECURSIVE SplitComma(_)
SplitComma(s) ==
  IF s = <<>> THEN <<<<>>>>
  ELSE LET init == SplitComma(SubSeq(s, 1, Len(s) - 1))
           c == s[Len(s)]
       IN IF c = "," THEN Append(init, <<>>)
          ELSE [init EXCEPT ![Len(init)] = Append(@, c)]

\* keys = tuple(k.strip() for k in ns.key.split(",")) if ns.key else None
ParsedKeys(key) ==
  IF key = <<>> THEN <<>>
  ELSE [i \in DOMAIN SplitComma(key) |-> ColumnNamed(Strip(SplitComma(key)[i]))]

\* compare_csv_files on two readable files.
CompareCsvFiles(s1, s2, ks, ord, hashOrder) ==
  CASE Mode(ord, ks) = "ordered" -> CompareOrdered(s1.headers, s1.rows, s2.headers, s2.rows)
    [] Mode(ord, ks) = "keyed" ->
         CompareUnordered(s1.headers, s1.rows, s2.headers, s2.rows, ks, hashOrder)
    [] Mode(ord, ks) = "multiset" -> CompareMultiset(s1.headers, s1.rows, s2.headers, s2.rows)

\* The formatter the if/elif chain on ns.format calls.
Formatter(format) ==
  IF format = "json" THEN "format_json"
  ELSE IF format = "summary" THEN "format_summary"
  ELSE IF format = "html" THEN "format_html"
  ELSE "format_markdown"

\* out: the text a formatter makes of a DiffResult.
Formatted(format, diff) == [by |-> Formatter(format), of |-> diff]

\* The exit code counts added rows only, for comparison with ExitCode.
ExitCodeAddedOnly(diff) == IF diff.added # <<>> THEN 1 ELSE 0

\* return 1 if (diff.added or diff.removed or diff.modified) else 0
ExitCode(diff) ==
  IF diff.added # <<>> \/ diff.removed # <<>> \/ diff.modified # <<>> THEN 1 ELSE 0

\* main(argv) on the parsed arguments ns: what it leaves behind.  An error of
\* the comparison is printed and answered by 2; an error of write_text leaves
\* main as an exception.
Main(ns, hashOrder) ==
  LET ks == ParsedKeys(ns.key)
      diff == CompareCsvFiles(ns.old_file[1], ns.new_file[1], ks, ns.ordered, hashOrder)
      out == Formatted(ns.format, diff)
  IN IF ns.old_file = None \/ ns.new_file = None
     THEN [ns EXCEPT !.exit = "returned", !.code = Some(2),
                     !.stderr = Some(IF ns.old_file = None THEN "Error: old" ELSE "Error: new")]
     ELSE IF ns.output = "-"
     THEN [ns EXCEPT !.exit = "returned", !.code = Some(ExitCode(diff)),
                     !.diff = Some(diff), !.stdout = Some(out)]
     ELSE IF ns.writable
     THEN [ns EXCEPT !.exit = "returned", !.code = Some(ExitCode(diff)),
                     !.diff = Some(diff), !.written = Some(out)]
     ELSE [ns EXCEPT !.exit = "raised", !.diff = Some(diff)]

Files == {None} \cup {Some(s) : s \in ScenarioSources}

InitMain ==
  /\ pc = "main"
  /\ \E format \in Formats, output \in {"-", "report"}, key \in KeyArgs, ord \in BOOLEAN,
        old_file \in Files, new_file \in Files, writable \in BOOLEAN :
       /\ output = "-" => writable
       /\ cli = Some([format |-> format, output |-> output, key |-> key, ordered |-> ord,
                      old_file |-> old_file, new_file |-> new_file, writable |-> writable,
                      exit |-> "none", code |-> None, diff |-> None,
                      stdout |-> None, stderr |-> None, written |-> None])
  /\ DiffUnused
  /\ TrackerUnused
  /\ ClassifierUnused
  /\ NormalizerUnused
  /\ SimilarityUnused

\* The orders in which the sets of a keyed comparison can enumerate the keys.
HashOrders(ns) ==
  IF ns.old_file # None /\ ns.new_file # None /\ Mode(ns.ordered, ParsedKeys(ns.key)) = "keyed"
  THEN Orders(KeySet(ns.old_file[1].rows, ParsedKeys(ns.key))
                \cup KeySet(ns.new_file[1].rows, ParsedKeys(ns.key)))
  ELSE {<<>>}

\* main(argv)
MainCall ==
  /\ pc = "main"
  /\ \E hashOrder \in HashOrders(cli[1]) : cli' = Some(Main(cli[1], hashOrder))
  /\ pc' = "exited"
  /\ UNCHANGED <<diffVars, trackerVars, classifierVars, normalizerVars, similarityVars>>

NextMain == MainCall

SpecMain == InitMain /\ [][NextMain]_vars

Exited == pc = "exited"

\* The comparison raises: one of the two files cannot be read.
ComparisonRaises == cli[1].old_file = None \/ cli[1].new_file = None

\* Some report output was produced, on stdout or in the output file.
ReportOutput == cli[1].stdout # None \/ cli[1].written # None

====
